---- MODULE Spec2Model ----
(***************************************************************************)
(* Slideshow.js v1.2 (src/js/slideshow-1.2.js): one slideshow container    *)
(* with its Animation, the chrono.Timer it owns, the host's table of       *)
(* active intervals, the per-slide Controller groups and the per-container *)
(* controller lock.  Every handler runs to completion (single-threaded     *)
(* event loop), so each handler is one action.                             *)
(***************************************************************************)
EXTENDS Integers, FiniteSets, Sequences, TLC

\* ---- bounds ----
NumSlides == 3
NumAffordances == 2
MaxIntervals == 2
NumContainers == 2
MaxPending == 2

\* ---- the DOM the widget is installed on ----
Slides == 0 .. (NumSlides - 1)
Affordances == 1 .. NumAffordances
NoTarget == -1
NoHandle == 0
Undefined == -1000
Empty == -2

\* the value of an unset lock: container.data(KEY_CONTROLLER_LOCK, 0)
Unset == 0

\* the selector string naming slide s ("#slide-s"), never falsy
Sel(s) == s + 1
SlideOf(sel) == sel - 1

CLASS_SSC_CURRENT == "ssc-current"
CLASS_SSC_LOCKED == "ssc-locked"

VARIABLES
  length,        \* slides.length: the number of slides of the container
  target,        \* data-target of each controller affordance (NoTarget: none)
  currentIndex,  \* slides.data(KEY_ANIMATION_CURRENT)
  slideState,    \* the css state last applied to each slide
  classes,       \* marker classes of each controller affordance
  lock,          \* container.data(KEY_CONTROLLER_LOCK)
  timer,         \* this.timer of the Animation: [holder]
  intervals,     \* the host's active setInterval schedules: [handle, owner]
  error,         \* TRUE once a handler ended in an uncaught TypeError
  last,          \* the handler that ran last, with what it saw on entry
  pending,       \* v1.0: the chrono.delay callbacks not fired yet, in order
  install        \* $.fn.slideshow running over a set of containers

vars == <<length, target, currentIndex, slideState, classes, lock, timer,
          intervals, error, last, pending, install>>

\* the slides of the container, by index
SlideSet == 0 .. (length - 1)

\* ---- jQuery helpers ----

\* variant: the incremented index is not wrapped
JsRem_noWrap(a, b) == a

\* variant: the index is not advanced
JsRem_stay(a, b) == (a - 1) % b

\* JavaScript's % on a possibly negative dividend (truncated remainder)
JsRem(a, b) == IF a >= 0 THEN a % b ELSE -((-a) % b)

\* slides.eq(i): counts from the end for negative i; Empty when out of range
Eq(i) ==
  IF i >= 0 /\ i < length THEN i
  ELSE IF i < 0 /\ i >= -length /\ i # Undefined THEN length + i
  ELSE Empty

\* the affordances attached to slide s's Controller
Group(s) == {a \in Affordances : target[a] = s}

\* ---- slideshow.Controller ----
\* variant: on() leaves the ssc-locked class in place
ControllerOn_keepLocked(cl, s) ==
  [a \in Affordances |->
     IF target[a] = s THEN cl[a] \cup {CLASS_SSC_CURRENT} ELSE cl[a]]

ControllerOn(cl, s) ==
  [a \in Affordances |->
     IF target[a] = s THEN (cl[a] \ {CLASS_SSC_LOCKED}) \cup {CLASS_SSC_CURRENT}
     ELSE cl[a]]

ControllerOff(cl, s) ==
  [a \in Affordances |->
     IF target[a] = s THEN (cl[a] \ {CLASS_SSC_CURRENT}) \ {CLASS_SSC_LOCKED}
     ELSE cl[a]]

\* variant: lock() marks the group current instead of locked
ControllerLock_asCurrent(cl, s) ==
  [a \in Affordances |->
     IF target[a] = s THEN (cl[a] \ {CLASS_SSC_LOCKED}) \cup {CLASS_SSC_CURRENT}
     ELSE cl[a]]

ControllerLock(cl, s) ==
  [a \in Affordances |->
     IF target[a] = s THEN (cl[a] \ {CLASS_SSC_CURRENT}) \cup {CLASS_SSC_LOCKED}
     ELSE cl[a]]

\* ---- chrono.Timer ----
\* An interval is owned by the Timer whose start() scheduled it: "this" while
\* that Timer is the Animation's this.timer, "discarded" once it was replaced.
\* new chrono.Timer(delay, routine): this.holder = {}
NewTimer == [holder |-> NoHandle]

\* the host's setInterval returns a handle no active interval has
FreshHandle(ivs) ==
  CHOOSE h \in 1 .. (MaxIntervals + 1) :
    /\ h \notin {i.handle : i \in ivs}
    /\ \A g \in 1 .. (h - 1) : g \in {i.handle : i \in ivs}

\* variant: start() schedules nothing
TimerStartIntervals_none(ivs) == ivs

\* start(): this.holder = setInterval(this.routine, this.delay)
TimerStartHolder(t, ivs) == [t EXCEPT !.holder = FreshHandle(ivs)]
TimerStartIntervals(ivs) == ivs \cup {[handle |-> FreshHandle(ivs), owner |-> "this"]}

\* stop(): clearInterval(this.holder)
TimerStop(ivs, t) == {i \in ivs : i.handle # t.holder}

\* the intervals a replaced Timer leaves behind belong to a discarded Timer
Discard(ivs) == {[handle |-> i.handle, owner |-> "discarded"] : i \in ivs}

ActiveHandles == {i.handle : i \in intervals}
Running == timer.holder \in ActiveHandles

\* ---- slideshow.Animation.prototype.skipto ----
\* var _index = (index < size) ? index : size - 1  (undefined < size is false)
SkipClamp(index) ==
  IF index # Undefined /\ index < length THEN index ELSE length - 1

\* variant: the outgoing slide is not given the end state
SkipSlides_keepPrevious(st, previous, next) ==
  [st EXCEPT ![next] = "intermediate"]

\* previous.css(states.end); next.css(states.start); ...; next.css(states.intermediate)
SkipSlides(st, previous, next) ==
  [[st EXCEPT ![previous] = "end"] EXCEPT ![next] = "intermediate"]

\* previous.data(KEY_CONTROLLER).off(); next.data(KEY_CONTROLLER).on()
SkipControllers(cl, previous, next) ==
  ControllerOn(ControllerOff(cl, previous), next)

\* The outcome of skipto(index) run on controller classes cl.
SkipTo(index, cl) ==
  LET stopped == TimerStop(intervals, timer)
      _index == SkipClamp(index)
      current == currentIndex
      previous == Eq(current)
      next == Eq(_index)
  IN IF index # current
     THEN IF next = Empty
          THEN \* next.reflow() reads [0].offsetHeight of an empty set
               [currentIndex |-> current,
                slideState |-> [slideState EXCEPT ![previous] = "end"],
                classes |-> cl,
                timer |-> timer, intervals |-> stopped, threw |-> TRUE]
          ELSE [currentIndex |-> _index,
                slideState |-> SkipSlides(slideState, previous, next),
                classes |-> SkipControllers(cl, previous, next),
                timer |-> NewTimer,
                intervals |-> Discard(stopped), threw |-> FALSE]
     ELSE [currentIndex |-> _index, slideState |-> slideState, classes |-> cl,
           timer |-> NewTimer,
           intervals |-> Discard(stopped), threw |-> FALSE]

\* origin and run: the slide a run of consecutive ticks started from and the
\* number of ticks in it (counted up to the number of slides)
Entry(op, arg) ==
  [op |-> op, arg |-> arg, from |-> currentIndex, lock |-> lock,
   origin |-> currentIndex, run |-> 0]

TickEntry(h) ==
  IF last.op = "tick" /\ last.run < length
  THEN [Entry("tick", h) EXCEPT !.origin = last.origin, !.run = last.run + 1]
  ELSE [Entry("tick", h) EXCEPT !.run = 1]

\* no container set is being installed
NoInstall == [variant |-> "none", containers |-> <<>>, made |-> <<>>,
              direction |-> "undefined", delay |-> 0]

\* ---- generateAnimationProcedure: the routine every Timer schedules ----
Tick(h) ==
  /\ h \in ActiveHandles
  /\ LET index == currentIndex
         previous == Eq(index)
         nindex == JsRem(index + 1, length)
         current == Eq(nindex)
     IN /\ currentIndex' = nindex
        /\ slideState' = [[slideState EXCEPT ![previous] = "end"]
                             EXCEPT ![current] = "intermediate"]
        /\ classes' = ControllerOn(ControllerOff(classes, previous), current)
  /\ last' = TickEntry(h)
  /\ UNCHANGED <<pending, install>>
  /\ UNCHANGED <<length, target, lock, timer, intervals, error>>

\* ---- $.fn.skip on slide s of the container ----
Skip(s) ==
  /\ s \in SlideSet
  /\ LET r == SkipTo(s, classes)
     IN /\ currentIndex' = r.currentIndex
        /\ slideState' = r.slideState
        /\ classes' = r.classes
        /\ timer' = r.timer
        /\ intervals' = r.intervals
        /\ error' = (error \/ r.threw)
  /\ last' = Entry("skip", s)
  /\ UNCHANGED <<pending, install>>
  /\ UNCHANGED <<length, target, lock>>

\* ---- $.fn.skip on a child of the container that is not a slide ----
SkipNonSlide ==
  /\ LET r == SkipTo(Undefined, classes)
     IN /\ currentIndex' = r.currentIndex
        /\ slideState' = r.slideState
        /\ classes' = r.classes
        /\ timer' = r.timer
        /\ intervals' = r.intervals
        /\ error' = (error \/ r.threw)
  /\ last' = Entry("skipnonslide", Undefined)
  /\ UNCHANGED <<pending, install>>
  /\ UNCHANGED <<length, target, lock>>

\* ---- slideshow.Animation.prototype.resume (via $.fn.resume) ----
AnimationResume ==
  /\ timer' = TimerStartHolder(timer, intervals)
  /\ intervals' = TimerStartIntervals(intervals)

Resume ==
  /\ Cardinality(intervals) < MaxIntervals
  /\ AnimationResume
  /\ last' = Entry("resume", 0)
  /\ UNCHANGED <<pending, install>>
  /\ UNCHANGED <<length, target,
                 currentIndex, slideState, classes, lock, error>>

\* variant: pausing also clears the controller lock
Pause_unlock ==
  /\ intervals' = TimerStop(intervals, timer)
  /\ lock' = Unset
  /\ last' = Entry("pause", 0)
  /\ UNCHANGED <<length, target,
                 currentIndex, slideState, classes, timer, error,
                 pending, install>>

\* ---- slideshow.Animation.prototype.pause (via $.fn.pause) ----
Pause ==
  /\ intervals' = TimerStop(intervals, timer)
  /\ last' = Entry("pause", 0)
  /\ UNCHANGED <<pending, install>>
  /\ UNCHANGED <<length, target,
                 currentIndex, slideState, classes, lock, timer,
                 error>>

\* ---- the handlers $.fn.controller binds to affordance a ----
\* variant: the handlers never see a lock
GetLock_unset == Unset

GetLock == lock

MouseEnter(a) ==
  /\ target[a] # NoTarget
  /\ IF GetLock = Unset
     THEN /\ LET r == SkipTo(target[a], classes)
             IN /\ currentIndex' = r.currentIndex
                /\ slideState' = r.slideState
                /\ classes' = r.classes
                /\ timer' = r.timer
                /\ intervals' = r.intervals
                /\ error' = (error \/ r.threw)
     ELSE UNCHANGED <<currentIndex, slideState, classes, timer, intervals,
                      error>>
  /\ last' = Entry("mouseenter", a)
  /\ UNCHANGED <<pending, install>>
  /\ UNCHANGED <<length, target, lock>>

MouseLeave(a) ==
  /\ target[a] # NoTarget
  /\ IF GetLock = Unset
     THEN /\ Cardinality(intervals) < MaxIntervals
          /\ AnimationResume
     ELSE UNCHANGED <<timer, intervals>>
  /\ last' = Entry("mouseleave", a)
  /\ UNCHANGED <<pending, install>>
  /\ UNCHANGED <<length, target,
                 currentIndex, slideState, classes, lock, error>>

Click(a) ==
  /\ target[a] # NoTarget
  /\ LET _target == Sel(target[a])
         existing_lock == GetLock
         released == IF existing_lock # Unset
                     THEN ControllerOff(classes, SlideOf(existing_lock))
                     ELSE classes
         r == SkipTo(target[a], released)
     IN IF existing_lock # _target
        THEN /\ currentIndex' = r.currentIndex
             /\ slideState' = r.slideState
             /\ timer' = r.timer
             /\ intervals' = r.intervals
             /\ error' = (error \/ r.threw)
             /\ classes' = IF r.threw THEN r.classes
                           ELSE ControllerLock(r.classes, target[a])
             /\ lock' = IF r.threw THEN lock ELSE _target
        ELSE /\ classes' = ControllerOn(classes, target[a])
             /\ lock' = Unset
             /\ UNCHANGED <<currentIndex, slideState, timer, intervals, error>>
  /\ last' = Entry("click", a)
  /\ UNCHANGED <<pending, install>>
  /\ UNCHANGED <<length, target>>

\* ---- the markups the widget is installed on ----
\* The first affordance (the one $.fn.controller reads first_target from) has
\* any slide as data-target, or none; affordance a > 1 targets slide a - 1.
Markup ==
  {f \in [Affordances -> Slides \cup {NoTarget}] :
     \A a \in Affordances \ {1} : f[a] = (a - 1) % NumSlides}

\* ---- the state after the document-ready auto-install ----
\* $(".slideshow").slideshow(".slide").resume(); $(".slideshow-controller").controller()
Init ==
  /\ length = NumSlides
  /\ target \in Markup
  /\ currentIndex = 0
  /\ slideState = [s \in Slides |-> IF s = 0 THEN "intermediate" ELSE "start"]
  /\ lock = Unset
  /\ timer = TimerStartHolder(NewTimer, {})
  /\ intervals = TimerStartIntervals({})
  /\ classes = [a \in Affordances |->
                  IF target[1] # NoTarget /\ target[a] = target[1]
                  THEN {CLASS_SSC_CURRENT} ELSE {}]
  /\ error = (target[1] = NoTarget)
  /\ last = [op |-> "install", arg |-> 0, from |-> 0, lock |-> 0,
             origin |-> 0, run |-> 0]
  /\ pending = <<>>
  /\ install = NoInstall

Next ==
  \/ \E h \in 1 .. MaxIntervals : Tick(h)
  \/ \E a \in Affordances : MouseEnter(a)
  \/ \E a \in Affordances : MouseLeave(a)
  \/ \E a \in Affordances : Click(a)
  \/ \E s \in Slides : Skip(s)
  \/ SkipNonSlide
  \/ Resume
  \/ Pause

Spec == Init /\ [][Next]_vars

\* pointer events and timer callbacks only
NextPointer ==
  \/ \E h \in 1 .. MaxIntervals : Tick(h)
  \/ \E a \in Affordances : MouseEnter(a)
  \/ \E a \in Affordances : MouseLeave(a)
  \/ \E a \in Affordances : Click(a)

SpecPointer == Init /\ [][NextPointer]_vars

\* ---- Animation.skipto called on the Animation object with any integer ----
\* container.data(KEY_ANIMATION).skipto(index)
IndexArgs == (0 - NumSlides - 1) .. (NumSlides + 1)

SkipToDirect(index) ==
  /\ LET r == SkipTo(index, classes)
     IN /\ currentIndex' = r.currentIndex
        /\ slideState' = r.slideState
        /\ classes' = r.classes
        /\ timer' = r.timer
        /\ intervals' = r.intervals
        /\ error' = (error \/ r.threw)
  /\ last' = Entry("skipto", index)
  /\ UNCHANGED <<pending, install>>
  /\ UNCHANGED <<length, target, lock>>

NextDirect ==
  \/ \E h \in 1 .. MaxIntervals : Tick(h)
  \/ \E a \in Affordances : MouseEnter(a)
  \/ \E a \in Affordances : MouseLeave(a)
  \/ \E a \in Affordances : Click(a)
  \/ \E s \in Slides : Skip(s)
  \/ SkipNonSlide
  \/ Resume
  \/ Pause
  \/ \E i \in IndexArgs : SkipToDirect(i)

SpecDirect == Init /\ [][NextDirect]_vars

\* ---- the document-ready auto-install, statement by statement ----
\* the markups of InitLoad: those of Markup, and the page on which no
\* affordance resolves a target (none has a data-target, or there is none)
MarkupLoad == Markup \cup {[a \in Affordances |-> NoTarget]}

\* variant: the target of the last affordance of the selection
FirstTarget_last == target[NumAffordances]

\* controllers.eq(0).attr("data-target")
FirstTarget == target[1]

\* the state after $(".slideshow").slideshow(".slide").resume()
InitLoad ==
  /\ length = NumSlides
  /\ target \in MarkupLoad
  /\ currentIndex = 0
  /\ slideState = [s \in Slides |-> IF s = 0 THEN "intermediate" ELSE "start"]
  /\ lock = Unset
  /\ timer = TimerStartHolder(NewTimer, {})
  /\ intervals = TimerStartIntervals({})
  /\ classes = [a \in Affordances |-> {}]
  /\ error = FALSE
  /\ last = [op |-> "load", arg |-> 0, from |-> 0, lock |-> 0,
             origin |-> 0, run |-> 0]
  /\ pending = <<>>
  /\ install = NoInstall

\* $(".slideshow-controller").controller(): each affordance with a target is
\* attached and bound, an affordance without one is passed over; then the
\* controller of the first affordance's target is switched on, and the call
\* on the controller of an empty selection is a TypeError
InstallControllers ==
  /\ last.op = "load"
  /\ IF FirstTarget # NoTarget
     THEN /\ classes' = ControllerOn(classes, FirstTarget)
          /\ error' = error
     ELSE /\ classes' = classes
          /\ error' = TRUE
  /\ last' = Entry("install", 0)
  /\ UNCHANGED <<length, target,
                 currentIndex, slideState, lock, timer, intervals,
                 pending, install>>

NextInstall ==
  \/ InstallControllers
  \/ last.op # "load" /\ Next

SpecInstall == InitLoad /\ [][NextInstall]_vars

\* ---- containers of any number of slides ----
\* the markups of a container of len slides: as Markup, over its slides
MarkupOf(len) ==
  {f \in [Affordances -> (0 .. (len - 1)) \cup {NoTarget}] :
     \A a \in Affordances \ {1} : f[a] = (a - 1) % len}

\* the state after the document-ready auto-install on a container of 1 to
\* NumSlides slides
InitLength ==
  /\ length \in 1 .. NumSlides
  /\ target \in MarkupOf(length)
  /\ currentIndex = 0
  /\ slideState = [s \in Slides |->
                     IF s \notin SlideSet THEN "none"
                     ELSE IF s = 0 THEN "intermediate" ELSE "start"]
  /\ lock = Unset
  /\ timer = TimerStartHolder(NewTimer, {})
  /\ intervals = TimerStartIntervals({})
  /\ classes = [a \in Affordances |->
                  IF target[1] # NoTarget /\ target[a] = target[1]
                  THEN {CLASS_SSC_CURRENT} ELSE {}]
  /\ error = (target[1] = NoTarget)
  /\ last = [op |-> "install", arg |-> 0, from |-> 0, lock |-> 0,
             origin |-> 0, run |-> 0]
  /\ pending = <<>>
  /\ install = NoInstall

SpecLength == InitLength /\ [][Next]_vars

\* ---- the page from before the script runs ----
\* no Animation, and so no Timer, exists
NoTimer == [holder |-> Undefined]

\* the sizes of the jQuery set an Animation is constructed over
ParentLengths == 0 .. NumContainers

\* variant: any non-empty set is accepted
SingleElement_nonEmpty(n) == n >= 1

\* if (parent.length == 1)
SingleElement(n) == n = 1

\* the document as loaded: no slide has inline css, nothing is stored on
\* any element
InitPage ==
  /\ length = NumSlides
  /\ target \in MarkupLoad
  /\ currentIndex = Undefined
  /\ slideState = [s \in Slides |-> "none"]
  /\ lock = Unset
  /\ timer = NoTimer
  /\ intervals = {}
  /\ classes = [a \in Affordances |-> {}]
  /\ error = FALSE
  /\ last = [op |-> "page", arg |-> 0, from |-> 0, lock |-> 0,
             origin |-> 0, run |-> 0]
  /\ pending = <<>>
  /\ install = NoInstall

\* new slideshow.Animation(parent, childname, direction, delay) over a set of
\* n elements: a Timer on the tick routine seeded with index 0, every slide
\* in the start state and slide 0 in the intermediate state; or the Error
NewAnimation(n) ==
  /\ last.op = "page"
  /\ IF SingleElement(n)
     THEN /\ timer' = NewTimer
          /\ currentIndex' = 0
          /\ slideState' = [s \in Slides |->
                              IF s \notin SlideSet THEN slideState[s]
                              ELSE IF s = 0 THEN "intermediate" ELSE "start"]
          /\ error' = error
     ELSE /\ error' = TRUE
          /\ UNCHANGED <<timer, currentIndex, slideState>>
  /\ last' = Entry("construct", n)
  /\ UNCHANGED <<length, target, classes, lock, intervals, pending, install>>

\* the rest of $(".slideshow").slideshow(".slide").resume(): the lock and the
\* per-slide Controllers are stored, and the Timer is started
LoadResume ==
  /\ last.op = "construct" /\ ~error
  /\ AnimationResume
  /\ lock' = Unset
  /\ last' = Entry("load", 0)
  /\ UNCHANGED <<length, target, currentIndex, slideState, classes, error,
                 pending, install>>

NextPage ==
  \/ \E n \in ParentLengths : NewAnimation(n)
  \/ LoadResume
  \/ InstallControllers
  \/ last.op \notin {"page", "construct", "load"} /\ Next

SpecPage == InitPage /\ [][NextPage]_vars

\* ---- $.fn.slideshow on a set of containers, one container per step ----
DEFAULT_DIRECTION == "horizontal"
DEFAULT_DELAY == 2000

\* what container.attr("data-direction") and container.attr("data-delay")
\* return: the attribute, or undefined when the container has none
DirectionAttrs == {"undefined", "horizontal", "vertical"}
DelayAttrs == {Undefined, DEFAULT_DELAY, 2 * DEFAULT_DELAY}
ContainerAttrs == [direction : DirectionAttrs, delay : DelayAttrs]

\* new slideshow.Animation(container, slidetype, direction, delay): the
\* direction of its states and its delay
Animation(direction, delay) ==
  [direction |-> IF direction = "undefined" THEN DEFAULT_DIRECTION
                 ELSE direction,
   delay |-> IF delay = Undefined THEN DEFAULT_DELAY ELSE delay]

\* slideshow(slidetype) is called without direction and delay
InitSlideshow ==
  /\ \E n \in 1 .. NumContainers :
       \E cs \in [1 .. n -> ContainerAttrs] :
         \E v \in {"1.0", "1.2"} :
           install = [variant |-> v, containers |-> cs, made |-> <<>>,
                      direction |-> "undefined", delay |-> Undefined]
  /\ length = NumSlides
  /\ target = [a \in Affordances |-> NoTarget]
  /\ currentIndex = 0
  /\ slideState = [s \in Slides |-> "start"]
  /\ lock = Unset
  /\ timer = NewTimer
  /\ intervals = {}
  /\ classes = [a \in Affordances |-> {}]
  /\ error = FALSE
  /\ last = [op |-> "load", arg |-> 0, from |-> 0, lock |-> 0,
             origin |-> 0, run |-> 0]
  /\ pending = <<>>

\* the body of containers.each in 1.2: direction and delay are the
\* parameters of slideshow(), assigned in the loop
SlideshowEach ==
  /\ install.variant = "1.2"
  /\ Len(install.made) < Len(install.containers)
  /\ LET container == install.containers[Len(install.made) + 1]
         direction == IF install.direction # "undefined"
                      THEN install.direction ELSE container.direction
         delay == IF install.delay # Undefined
                  THEN install.delay ELSE container.delay
     IN install' = [install EXCEPT
                      !.direction = direction,
                      !.delay = delay,
                      !.made = Append(@, Animation(direction, delay))]
  /\ last' = Entry("slideshow", Len(install.made) + 1)
  /\ UNCHANGED <<length, target,
                 currentIndex, slideState, classes, lock, timer,
                 intervals, error, pending>>

\* the body of containers.each in 1.0: _direction and _delay are locals
SlideshowEach10 ==
  /\ install.variant = "1.0"
  /\ Len(install.made) < Len(install.containers)
  /\ LET container == install.containers[Len(install.made) + 1]
         _direction == IF install.direction = "undefined"
                       THEN container.direction ELSE install.direction
         _delay == IF install.delay = Undefined
                   THEN container.delay ELSE install.delay
     IN install' = [install EXCEPT
                      !.made = Append(@, Animation(_direction, _delay))]
  /\ last' = Entry("slideshow", Len(install.made) + 1)
  /\ UNCHANGED <<length, target,
                 currentIndex, slideState, classes, lock, timer,
                 intervals, error, pending>>

NextSlideshow ==
  \/ SlideshowEach
  \/ SlideshowEach10

SpecSlideshow == InitSlideshow /\ [][NextSlideshow]_vars

\* ---- the 1.0 variant (slideshow.js) ----
\* the Controller stored on slide s: $.fn.controller stores one Controller per
\* affordance on its target, so the last affordance of the group is the one
\* that stays; a slide no affordance targets has none
HasController10(s) == Group(s) # {}
Owner10(s) == CHOOSE a \in Group(s) : \A b \in Group(s) : b <= a

ControllerOn10(cl, s) ==
  [cl EXCEPT ![Owner10(s)] = (@ \ {CLASS_SSC_LOCKED}) \cup {CLASS_SSC_CURRENT}]

ControllerOff10(cl, s) ==
  [cl EXCEPT ![Owner10(s)] = (@ \ {CLASS_SSC_CURRENT}) \ {CLASS_SSC_LOCKED}]

\* chrono.delay(ANIMATION_SPEED, function() { previous.css(states.start) }):
\* a timeout nothing can cancel; equal delays fire in the order queued
Delay(q, previous) == Append(q, previous)

\* the routine of the 1.0 Timer
Tick10(h) ==
  /\ h \in ActiveHandles
  /\ Len(pending) < MaxPending
  /\ LET index == currentIndex
         previous == index
         nindex == JsRem(index + 1, length)
         ended == [slideState EXCEPT ![previous] = "end"]
     IN /\ pending' = Delay(pending, previous)
        /\ IF ~HasController10(previous)
           THEN /\ slideState' = ended
                /\ error' = TRUE
                /\ UNCHANGED <<currentIndex, classes>>
           ELSE /\ currentIndex' = nindex
                /\ slideState' = [ended EXCEPT ![nindex] = "intermediate"]
                /\ IF ~HasController10(nindex)
                   THEN /\ classes' = ControllerOff10(classes, previous)
                        /\ error' = TRUE
                   ELSE /\ classes' = ControllerOn10(
                                        ControllerOff10(classes, previous),
                                        nindex)
                        /\ error' = error
  /\ last' = Entry("tick", h)
  /\ UNCHANGED <<length, target, lock, timer, intervals, install>>

\* Animation.skipto of 1.0, called by $.fn.skip on slide s (the hover handler
\* of an affordance calls it on the affordance's target)
Skip10(s) ==
  /\ s \in SlideSet
  /\ LET stopped == TimerStop(intervals, timer)
         _index == SkipClamp(s)
         current == currentIndex
         previous == current
         next == _index
         moved == [[slideState EXCEPT ![previous] = "end"]
                      EXCEPT ![next] = "intermediate"]
     IN IF s # current
        THEN /\ Len(pending) < MaxPending
             /\ slideState' = moved
             /\ pending' = Delay(pending, previous)
             /\ IF ~HasController10(previous)
                THEN /\ error' = TRUE
                     /\ intervals' = stopped
                     /\ UNCHANGED <<currentIndex, classes, timer>>
                ELSE IF ~HasController10(next)
                THEN /\ classes' = ControllerOff10(classes, previous)
                     /\ error' = TRUE
                     /\ intervals' = stopped
                     /\ UNCHANGED <<currentIndex, timer>>
                ELSE /\ classes' = ControllerOn10(
                                     ControllerOff10(classes, previous), next)
                     /\ currentIndex' = _index
                     /\ timer' = NewTimer
                     /\ intervals' = Discard(stopped)
                     /\ error' = error
        ELSE /\ currentIndex' = _index
             /\ timer' = NewTimer
             /\ intervals' = Discard(stopped)
             /\ UNCHANGED <<slideState, classes, pending, error>>
  /\ last' = Entry("skip", s)
  /\ UNCHANGED <<length, target, lock, install>>

\* the oldest delayed callback fires: previous.css(states.start)
FireDelayed ==
  /\ pending # <<>>
  /\ slideState' = [slideState EXCEPT ![Head(pending)] = "start"]
  /\ pending' = Tail(pending)
  /\ last' = Entry("fire", Head(pending))
  /\ UNCHANGED <<length, target, currentIndex, classes, lock, timer, intervals,
                 error, install>>

\* the state after the document-ready auto-install of 1.0
Init10 ==
  /\ length = NumSlides
  /\ target \in Markup
  /\ currentIndex = 0
  /\ slideState = [s \in Slides |-> IF s = 0 THEN "intermediate" ELSE "start"]
  /\ lock = Unset
  /\ timer = TimerStartHolder(NewTimer, {})
  /\ intervals = TimerStartIntervals({})
  /\ classes = IF target[1] # NoTarget
               THEN ControllerOn10([a \in Affordances |-> {}], target[1])
               ELSE [a \in Affordances |-> {}]
  /\ error = (target[1] = NoTarget)
  /\ last = [op |-> "install", arg |-> 0, from |-> 0, lock |-> 0,
             origin |-> 0, run |-> 0]
  /\ pending = <<>>
  /\ install = NoInstall

Next10 ==
  \/ \E h \in 1 .. MaxIntervals : Tick10(h)
  \/ \E s \in Slides : Skip10(s)
  \/ FireDelayed
  \/ Resume
  \/ Pause

Spec10 == Init10 /\ [][Next10]_vars

\* ---- a slideshow no controller affordance is installed on ----
\* the state after $(container).slideshow(".slide").resume() in either
\* variant; controller() is not called
InitBare ==
  /\ length = NumSlides
  /\ target = [a \in Affordances |-> NoTarget]
  /\ currentIndex = 0
  /\ slideState = [s \in Slides |-> IF s = 0 THEN "intermediate" ELSE "start"]
  /\ lock = Unset
  /\ timer = TimerStartHolder(NewTimer, {})
  /\ intervals = TimerStartIntervals({})
  /\ classes = [a \in Affordances |-> {}]
  /\ error = FALSE
  /\ last = [op |-> "load", arg |-> 0, from |-> 0, lock |-> 0,
             origin |-> 0, run |-> 0]
  /\ pending = <<>>
  /\ \E v \in {"1.0", "1.2"} : install = [NoInstall EXCEPT !.variant = v]

NextBare ==
  \/ \E h \in 1 .. MaxIntervals : install.variant = "1.2" /\ Tick(h)
  \/ \E s \in Slides : install.variant = "1.2" /\ Skip(s)
  \/ \E h \in 1 .. MaxIntervals : install.variant = "1.0" /\ Tick10(h)
  \/ \E s \in Slides : install.variant = "1.0" /\ Skip10(s)
  \/ install.variant = "1.0" /\ FireDelayed
  \/ Resume
  \/ Pause

SpecBare == InitBare /\ [][NextBare]_vars

\* ---- the host fires every interval that stays active ----
\* setInterval: while a schedule is active, the routine is called again
SpecLive ==
  Spec /\ WF_vars(\E h \in 1 .. MaxIntervals : Tick(h))

\* the handler that ran last took the Animation off its course or stopped
\* it: a skip, a pause, a click, or a mouseenter with no lock held
Interfered ==
  \/ last.op \in {"skip", "skipnonslide", "pause", "click"}
  \/ last.op = "mouseenter" /\ last.lock = Unset

\* ---- which handler a step ran ----
\* the step ran Animation.skipto(i): $.fn.skip on slide i, an unlocked
\* mouseenter, or a click that moves the lock
RanSkipto(i) ==
  \/ last'.op = "skip" /\ last'.arg = i
  \/ last'.op = "mouseenter" /\ lock = 0 /\ target[last'.arg] = i
  \/ last'.op = "click" /\ lock # Sel(target[last'.arg]) /\ target[last'.arg] = i

\* the step ran Animation.skipto(i) and nothing else
RanOnlySkipto(i) ==
  \/ last'.op = "skip" /\ last'.arg = i
  \/ last'.op = "mouseenter" /\ lock = 0 /\ target[last'.arg] = i

Visible(st) == {s \in Slides : st[s] = "intermediate"}

\* the interval with handle h
IntervalOf(h) == CHOOSE i \in intervals : i.handle = h

TypeOK ==
  /\ currentIndex \in Slides
  /\ lock \in 0 .. NumSlides
  /\ Cardinality(intervals) <= MaxIntervals
  /\ timer.holder \in 0 .. (MaxIntervals + 1)

\* ---------------------------------------------------------------------------
\* C1 (as stated): for every valid index, skipto(index) ends with
\* currentIndex = index, slide index the only slide in the intermediate
\* state, and the previously current slide in the end state.
C1_SkiptoAsStated ==
  [][\A i \in Slides : (RanSkipto(i) /\ ~error) =>
        /\ currentIndex' = i
        /\ Visible(slideState') = {i}
        /\ slideState'[currentIndex] = "end"]_vars

\* C1 (amended): for every valid index, skipto(index) ends with
\* currentIndex = index and slide index the only slide in the intermediate
\* state; the previously current slide, when it is another slide than index,
\* is in the end state.
C1_Skipto ==
  [][\A i \in Slides : RanSkipto(i) =>
        /\ currentIndex' = i
        /\ Visible(slideState') = {i}
        /\ (currentIndex # i => slideState'[currentIndex] = "end")]_vars

C1_Witness ==
  /\ ~error
  /\ last.op = "skip" /\ last.arg = 2 /\ last.from = 0
  /\ currentIndex = 2 /\ Visible(slideState) = {2} /\ slideState[0] = "end"

\* C2: skip implicitly pauses: after skipto() no callback of a Timer created
\* before the skip fires, so every tick that fires belongs to the Animation's
\* present Timer (and that Timer was resumed after the skip).
C2_SkipPauses ==
  [][(last'.op = "tick" /\ ~error) =>
        /\ IntervalOf(last'.arg).owner = "this"
        /\ timer.holder # NoHandle]_vars

\* C3: resume() and pause() are idempotent: a resume() right after a resume()
\* leaves the same number of active schedules of the tick routine (and the
\* Timer running), a pause() right after a pause() leaves the schedules and
\* the Timer as they were; nothing else changes.
C3_Idempotent ==
  [][(last.op = last'.op /\ last'.op \in {"resume", "pause"} /\ ~error) =>
        /\ Cardinality(intervals') = Cardinality(intervals)
        /\ (timer'.holder \in {i.handle : i \in intervals'}) = Running
        /\ UNCHANGED <<currentIndex, slideState, classes, lock, error>>]_vars

\* C4: cancellation: while the Animation's Timer is stopped (after pause(),
\* until the next resume()), none of that Timer's tick callbacks fires.
C4_Cancellation ==
  [][(last'.op = "tick" /\ IntervalOf(last'.arg).owner = "this" /\ ~error)
        => Running]_vars

\* so that the witnesses speak of affordances that carry marker classes
GroupIs(s, cls) == Group(s) # {} /\ \A a \in Group(s) : classes[a] = cls

\* C5: lock acquisition and move: a click on an affordance whose target T does
\* not hold the lock ends with lock = T, T's controller locked, currentIndex
\* the index of T, the previous holder's controller (if any) in the default
\* state, and no controller other than T's locked.
C5_LockMove ==
  [][\A a \in Affordances :
       (last'.op = "click" /\ last'.arg = a /\ lock # Sel(target[a])) =>
          /\ lock' = Sel(target[a])
          /\ \A b \in Group(target[a]) : classes'[b] = {CLASS_SSC_LOCKED}
          /\ currentIndex' = target[a]
          /\ (lock # 0 => \A b \in Group(SlideOf(lock)) : classes'[b] = {})
          /\ \A b \in Affordances :
                CLASS_SSC_LOCKED \in classes'[b] => target[b] = target[a]]_vars

C5_Witness ==
  /\ ~error
  /\ last.op = "click" /\ last.lock # 0 /\ last.lock # lock
  /\ lock = Sel(target[last.arg]) /\ currentIndex = target[last.arg]
  /\ GroupIs(target[last.arg], {CLASS_SSC_LOCKED})
  /\ GroupIs(SlideOf(last.lock), {})

\* C6: lock release: a click on an affordance whose target T holds the lock
\* ends with the lock unset and T's controller current, and leaves
\* currentIndex and the Timer (identity, stopped/running) unchanged.
C6_LockRelease ==
  [][\A a \in Affordances :
       (last'.op = "click" /\ last'.arg = a /\ lock = Sel(target[a])) =>
          /\ lock' = 0
          /\ \A b \in Group(target[a]) : classes'[b] = {CLASS_SSC_CURRENT}
          /\ UNCHANGED <<currentIndex, timer, intervals>>]_vars

C6_Witness ==
  /\ ~error
  /\ last.op = "click" /\ last.lock = Sel(target[last.arg]) /\ lock = 0
  /\ GroupIs(target[last.arg], {CLASS_SSC_CURRENT})
  /\ Running

\* C7: in every reachable state, if the lock holds target T then T's
\* controller is in the locked visual state.
C7_LockedWhileHeld ==
  (lock # 0 /\ ~error) =>
     \A a \in Group(SlideOf(lock)) : classes[a] = {CLASS_SSC_LOCKED}

\* C8: the lock pins its target: while the lock holds T, under pointer events
\* and timer callbacks, currentIndex is the index of T.
C8_LockPins == (lock # 0 /\ ~error) => currentIndex = SlideOf(lock)

\* C9: hover is suppressed while a lock is held: a mouseenter or mouseleave
\* with lock # unset leaves currentIndex, every slide's and every controller's
\* visual state, the Timer and the lock unchanged.
C9_HoverSuppressed ==
  [][(lock # 0 /\ last'.op \in {"mouseenter", "mouseleave"}) =>
        UNCHANGED <<currentIndex, slideState, classes, timer, intervals, lock>>]_vars

C9_Witness ==
  /\ ~error
  /\ last.op = "mouseenter" /\ last.lock # 0 /\ lock = last.lock
  /\ target[last.arg] # currentIndex /\ Running

\* C10: hover while unlocked: mouseenter on an affordance with target T ends
\* with currentIndex the index of T and the Timer stopped; mouseleave ends with
\* the Animation's Timer running, and a tick that follows it advances from the
\* current slide.
C10_HoverUnlocked ==
  [][/\ \A a \in Affordances :
          (last'.op = "mouseenter" /\ last'.arg = a /\ lock = 0) =>
             /\ currentIndex' = target[a]
             /\ timer'.holder \notin {i.handle : i \in intervals'}
     /\ (last'.op = "mouseleave" /\ lock = 0) =>
             /\ timer'.holder \in {i.handle : i \in intervals'}
             /\ currentIndex' = currentIndex
     /\ (last.op = "mouseleave" /\ last.lock = 0 /\ last'.op = "tick") =>
             currentIndex' = (currentIndex + 1) % NumSlides]_vars

C10_Witness ==
  /\ ~error
  /\ last.op = "mouseleave" /\ last.lock = 0 /\ Running
  /\ currentIndex = 1 /\ Visible(slideState) = {1}
  /\ \A i \in intervals : i.owner = "this"

\* C11: the per-container lock value is changed only by click handlers:
\* mouseenter, mouseleave, a tick, skip, resume and pause leave it unchanged.
C11_LockFrame ==
  [][last'.op \in {"mouseenter", "mouseleave", "tick", "skip", "skipnonslide",
                   "resume", "pause"} => lock' = lock]_vars

C11_Witness ==
  /\ ~error
  /\ last.op = "pause" /\ last.lock # Unset /\ lock = last.lock

\* C12: tick advancement is cyclic: each tick maps currentIndex i to
\* (i + 1) mod length, and a run of ticks that started at slide k has the
\* cursor back at k after exactly length ticks (3 slides: from 2 one tick
\* gives 0).
C12_TickCyclic ==
  [][last'.op = "tick" =>
        /\ currentIndex' = (currentIndex + 1) % NumSlides
        /\ currentIndex' = (last'.origin + last'.run) % NumSlides
        /\ (last'.run = NumSlides => currentIndex' = last'.origin)]_vars

C12_Witness ==
  /\ ~error
  /\ last.op = "tick" /\ last.run = NumSlides
  /\ last.origin = NumSlides - 1 /\ currentIndex = NumSlides - 1

C14_InRange == ~error => (currentIndex >= 0 /\ currentIndex < NumSlides)

\* C16: skipto(index) with index >= length leaves currentIndex = length - 1,
\* and when the last slide is already current no visual transition occurs: no
\* slide's and no controller's visual state changes.
C16_ClampHigh ==
  [][\A i \in IndexArgs :
       (last'.op = "skipto" /\ last'.arg = i /\ i >= NumSlides /\ ~error) =>
          /\ currentIndex' = NumSlides - 1
          /\ (currentIndex = NumSlides - 1 =>
                 UNCHANGED <<slideState, classes>>)]_vars

\* C15: skipto(index) with index already current changes no slide's and no
\* controller's visual state, stops the old Timer and installs a new, stopped
\* Timer, so that no tick happens until resume() is called.
C15_SkipSame ==
  [][/\ \A i \in Slides :
          (RanOnlySkipto(i) /\ i = currentIndex /\ ~error) =>
             /\ UNCHANGED <<slideState, classes>>
             /\ timer' = NewTimer
             /\ timer.holder \notin {j.handle : j \in intervals'}
             /\ \A j \in intervals' : j.owner = "discarded"
     /\ (last.op = "skip" /\ last.arg = last.from /\ ~error) =>
             last'.op # "tick"]_vars

\* C17: a skip request on an element that is not a recognized slide (a
\* non-slide child of the container) is a silent no-op: currentIndex, all
\* visual states and the Timer are unchanged and no error is raised.
C17_SkipNonSlideNoop ==
  [][(last'.op = "skipnonslide" /\ ~error) =>
        UNCHANGED <<currentIndex, slideState, classes, timer, intervals,
                    error>>]_vars
\* C18: controller installation with no resolvable target (the first
\* affordance has no data-target, or there is no affordance) raises no error
\* and changes no controller's or slide's state.
C18_InstallTolerated ==
  [][(last'.op = "install" /\ FirstTarget = NoTarget) =>
        /\ ~error'
        /\ UNCHANGED <<classes, slideState>>]_vars

\* C19: slideshow() on several containers without direction and delay
\* arguments: each container's Animation has the direction and delay of that
\* container's own data-direction and data-delay attributes, horizontal and
\* 2000 ms where the container has none, whatever the other containers have.
C19_OwnAttributes ==
  \A k \in 1 .. Len(install.made) :
     install.made[k] = Animation(install.containers[k].direction,
                                 install.containers[k].delay)

\* C20: in the 1.0 variant, after any sequence of ticks and skipto() calls
\* interleaved with the delayed callbacks they queue, once every pending
\* delayed callback has fired the slide designated by currentIndex is in the
\* intermediate state.
C20_StaleTolerated ==
  (pending = <<>> /\ ~error) => slideState[currentIndex] = "intermediate"

C22_SingleContainer ==
  [][\A n \in ParentLengths :
       (last'.op = "construct" /\ last'.arg = n) =>
          IF n = 1
          THEN ~error' /\ timer' = NewTimer
          ELSE /\ error'
               /\ timer' = NoTimer /\ intervals' = {}
               /\ slideState' = [s \in Slides |-> "none"]]_vars

C22_Witness ==
  /\ error
  /\ last.op = "construct" /\ last.arg = NumContainers
  /\ timer = NoTimer /\ Visible(slideState) = {}

\* C23: one tick from current index i, for every length >= 1, ends with
\* currentIndex = i' = (i + 1) mod length, slide i' intermediate and its
\* controller group current, slide i (when i # i') in the end state and its
\* controller group in the default state, and every other slide and
\* controller as it was.
C23_Tick ==
  [][last'.op = "tick" =>
       LET i == currentIndex
           j == (i + 1) % length
       IN /\ currentIndex' = j
          /\ slideState'[j] = "intermediate"
          /\ \A b \in Group(j) : classes'[b] = {CLASS_SSC_CURRENT}
          /\ (i # j => /\ slideState'[i] = "end"
                       /\ \A b \in Group(i) : classes'[b] = {})
          /\ \A s \in Slides \ {i, j} : slideState'[s] = slideState[s]
          /\ \A b \in Affordances :
                target[b] \notin {i, j} => classes'[b] = classes[b]]_vars

C23_Witness ==
  /\ ~error
  /\ length = 1 /\ last.op = "tick" /\ last.from = 0
  /\ currentIndex = 0 /\ slideState[0] = "intermediate"
  /\ GroupIs(0, {CLASS_SSC_CURRENT})

\* C24: on a slideshow no controller affordance was installed on, in the 1.0
\* and in the 1.2 variant, every tick and every skipto(index) completes
\* without error, moves currentIndex (to the next index, to index) and
\* leaves the slide at currentIndex visible.
C24_NoControllers ==
  [][(last'.op \in {"tick", "skip"} /\ ~error) =>
        /\ ~error'
        /\ currentIndex' = IF last'.op = "tick"
                           THEN (currentIndex + 1) % length
                           ELSE last'.arg
        /\ slideState'[currentIndex'] = "intermediate"]_vars

\* C25: from the auto-installed state and under pointer events only, at most
\* one periodic schedule of the tick routine is active at any time.
C25_OneSchedule == ~error => Cardinality(intervals) <= 1

\* C26: in every state reached by pointer events, ticks and the public
\* skip, resume and pause, the affordances that carry a marker class
\* (current or locked) all belong to one slide's controller group, and that
\* slide is the one at currentIndex.
C26_OneMarker ==
  ~error => \A b \in Affordances : classes[b] # {} => target[b] = currentIndex

\* C27: once the Timer is running, and unless a skip, pause or click
\* comes in between, every slide eventually becomes current; as this holds
\* from every state with the Timer running, it becomes current again and
\* again.
C27_Live ==
  \A s \in Slides : Running ~> (currentIndex = s \/ Interfered)

C27_Witness ==
  /\ ~error /\ Running
  /\ last.op = "tick" /\ last.run = NumSlides
  /\ last.origin = 0 /\ currentIndex = 0

====
